---- MODULE Spec2Model ----
(***************************************************************************)
(* A model of src/content/reducers/profile-view.js of perf.html: the       *)
(* per-thread view-options reducer (viewOptionsPerThread), the call-tree   *)
(* filter remap of persisted FuncStack paths, and the memoized selector    *)
(* graph built by selectorsForThread / selectedThreadSelectors.            *)
(***************************************************************************)
EXTENDS Integers, Sequences, FiniteSets, TLC

(***************************************************************************)
(* Bounds of the model.                                                    *)
(***************************************************************************)
\* Number of rows of the loaded profile's funcTable: function ids 0..NumFuncs-1.
NumFuncs == 3
\* Number of actions dispatched to the store in one run.
MaxEvents == 3
\* Number of selector calls in one run.
MaxQueries == 2

\* selectedMarker: -1 is "no marker selected" (profile-view.js line 115).
NoMarker == -1

Funcs == 0 .. (NumFuncs - 1)
\* Thread counts of the profiles that are loaded.
ThreadCounts == {1, 2}
Markers == {NoMarker, 0}

(***************************************************************************)
(* JavaScript array helpers, as the reducer uses them.                    *)
(***************************************************************************)
Max(a, b) == IF a >= b THEN a ELSE b
Min(a, b) == IF a <= b THEN a ELSE b

\* Array.prototype.slice(start): a negative start counts from the end.
SliceFrom(arr, start) ==
  LET len  == Len(arr)
      from == IF start < 0 THEN Max(len + start, 0) ELSE Min(start, len)
  IN  SubSeq(arr, from + 1, len)

\* Array.prototype.slice(0, end) for 0 <= end.
SliceTo(arr, end) == SubSeq(arr, 1, Min(end, Len(arr)))

\* FuncStack paths the UI supplies: the call paths of a profile whose call
\* graph is acyclic (function i only calls functions j > i), i.e. the strictly
\* increasing sequences of function ids.
RECURSIVE IncreasingFrom(_, _)
IncreasingFrom(lo, n) ==
  IF n = 0 THEN {<<>>}
  ELSE {<<>>} \cup UNION { { <<f>> \o p : p \in IncreasingFrom(f + 1, n - 1) }
                           : f \in { g \in Funcs : g >= lo } }
Paths == IncreasingFrom(0, NumFuncs)

(***************************************************************************)
(* State.                                                                  *)
(***************************************************************************)
VARIABLES
  perThread,   \* state.profileView.viewOptions.perThread: ThreadViewOptions[]
  last,        \* the action dispatched last, [type, threadIndex, arg]
  prev,        \* perThread as it was before the action dispatched last
  raised,      \* whether the last dispatch or query threw
  nEvents,     \* number of actions dispatched so far
  profileGen,  \* number of profiles received: the identity of state.profileView.profile
  viewOptionsGen, \* the identity of the object state.profileView.viewOptions
  selection,   \* state.profileView.viewOptions.selection
  url,         \* the URL state the selectors read through URLState.*
  selectorsForThreads, \* the registry of line 338: thread index -> its memo cells
  displayRangeCell,    \* the memo cell of getDisplayRange
  query,       \* the selector call made last, with what it found and returned
  sinceTree,   \* per thread: the action types dispatched since its call tree was last returned
  nQueries,    \* number of selector calls so far
  waitingForLibs,     \* state.profileView.viewOptions.waitingForLibs: Set<RequestedLib>
  prevWaitingForLibs, \* waitingForLibs as it was before the action dispatched last
  lastNaming          \* the type of the last action that named each lib, each lib object

viewVars == <<perThread, last, prev, raised, nEvents>>
selVars == <<profileGen, viewOptionsGen, selection, url, selectorsForThreads,
             displayRangeCell, query, sinceTree, nQueries>>
libVars == <<waitingForLibs, prevWaitingForLibs, lastNaming>>
vars == <<perThread, last, prev, raised, nEvents, profileGen, viewOptionsGen, selection,
          url, selectorsForThreads, displayRangeCell, query, sinceTree, nQueries,
          waitingForLibs, prevWaitingForLibs, lastNaming>>

\* The ThreadViewOptions of thread threadIndex (0-based, as in the source).
At(state, threadIndex) == state[threadIndex + 1]
ThreadIndices(state) == 0 .. (Len(state) - 1)

\* [...state.slice(0, threadIndex), obj, ...state.slice(threadIndex + 1)]
ReplaceAt(state, threadIndex, obj) ==
  [i \in 1 .. Len(state) |-> IF i = threadIndex + 1 THEN obj ELSE state[i]]

(***************************************************************************)
(* funcStackAfterCallTreeFilter / removePrefixFromFuncArray                *)
(***************************************************************************)
removePrefixFromFuncArray_KeepsNoBoundary(prefixFuncs, funcArray) ==
  IF \/ Len(prefixFuncs) > Len(funcArray)
     \/ \E i \in 1 .. Len(prefixFuncs) : prefixFuncs[i] # funcArray[i]
  THEN <<>>
  ELSE SliceFrom(funcArray, Len(prefixFuncs))

removePrefixFromFuncArray_FirstOnly(prefixFuncs, funcArray) ==
  IF \/ Len(prefixFuncs) > Len(funcArray)
     \/ \E i \in 1 .. Min(1, Len(prefixFuncs)) : prefixFuncs[i] # funcArray[i]
  THEN <<>>
  ELSE SliceFrom(funcArray, Len(prefixFuncs) - 1)

removePrefixFromFuncArray(prefixFuncs, funcArray) ==
  IF \/ Len(prefixFuncs) > Len(funcArray)
     \/ \E i \in 1 .. Len(prefixFuncs) : prefixFuncs[i] # funcArray[i]
  THEN <<>>
  ELSE SliceFrom(funcArray, Len(prefixFuncs) - 1)

funcStackAfterCallTreeFilter_IgnoresJSOnly(funcArray, filter) ==
  IF filter.type = "prefix"
  THEN removePrefixFromFuncArray(filter.prefixFuncs, funcArray)
  ELSE funcArray

funcStackAfterCallTreeFilter(funcArray, filter) ==
  IF filter.type = "prefix" /\ ~filter.matchJSOnly
  THEN removePrefixFromFuncArray(filter.prefixFuncs, funcArray)
  ELSE funcArray

(***************************************************************************)
(* Inputs of the actions.                                                  *)
(***************************************************************************)
\* CallTreeFilter values; "other" stands for a variant tag that is neither
\* prefix nor postfix.
PrefixFilters ==
  { [type |-> "prefix", prefixFuncs |-> p, matchJSOnly |-> b]
      : p \in Paths, b \in BOOLEAN }
PostfixFilters ==
  { [type |-> "postfix", postfixFuncs |-> p, matchJSOnly |-> b]
      : p \in { q \in Paths : Len(q) = 1 }, b \in BOOLEAN }
OtherFilters == { [type |-> "other", matchJSOnly |-> FALSE] }
Filters == PrefixFilters \cup PostfixFilters \cup OtherFilters

\* oldFuncToNewFuncMap as a set of <<old, new>> entries, one per old id:
\* the merge of one function into its predecessor, and the map that shifts
\* every function onto its predecessor.
MergeMaps ==
  { { <<f, f - 1>> } : f \in Funcs \ {0} }
    \cup { { <<f, f - 1>> : f \in Funcs \ {0} } }
\* Map.prototype.get: the new id, or undefined (modelled as -1) when absent.
MapGet(map, key) ==
  IF \E e \in map : e[1] = key
  THEN (CHOOSE e \in map : e[1] = key)[2]
  ELSE -1
\* One entry of functionsUpdatePerThread; present = FALSE is a missing entry.
NoUpdate == [present |-> FALSE, oldFuncToNewFuncMap |-> {}]
Updates ==
  { NoUpdate } \cup { [present |-> TRUE, oldFuncToNewFuncMap |-> m] : m \in MergeMaps }

\* Values of action.expandedFuncStacks: no entry, or one entry.
ExpandedInputs == { <<>> } \cup { <<p>> : p \in Paths }

NoAction == [type |-> "@@INIT", threadIndex |-> -1, arg |-> <<>>]

\* A load that keeps the view options of the threads it already had.
ReceiveProfileResult_KeepsExisting(state, nThreads) ==
  [t \in 1 .. nThreads |->
     IF t <= Len(state) THEN state[t]
     ELSE [selectedFuncStack |-> <<>>, expandedFuncStacks |-> <<>>, selectedMarker |-> -1]]

(***************************************************************************)
(* viewOptionsPerThread                                                    *)
(***************************************************************************)
DefaultViewOptions ==
  [selectedFuncStack |-> <<>>, expandedFuncStacks |-> <<>>, selectedMarker |-> NoMarker]

\* case 'RECEIVE_PROFILE_FROM_ADDON' | '..._WEB' | '..._FILE'
ReceiveProfileResult(state, nThreads) ==
  [i \in 1 .. nThreads |-> DefaultViewOptions]

ApplyMap_DropsUnmapped(map, oldFunc) == MapGet(map, oldFunc)

ApplyMap(map, oldFunc) ==
  LET newFunc == MapGet(map, oldFunc)
  IN  IF newFunc = -1 THEN oldFunc ELSE newFunc

\* case 'COALESCED_FUNCTIONS_UPDATE'
CoalescedFunctionsUpdateResult(state, functionsUpdatePerThread) ==
  [i \in 1 .. Len(state) |->
     IF ~functionsUpdatePerThread[i].present
     THEN state[i]
     ELSE LET map == functionsUpdatePerThread[i].oldFuncToNewFuncMap
              \* oldFuncArray.map(oldFunc => ...)
              RemapArray(oldFuncArray) ==
                [j \in 1 .. Len(oldFuncArray) |-> ApplyMap(map, oldFuncArray[j])]
          IN  [selectedFuncStack  |-> RemapArray(state[i].selectedFuncStack),
               expandedFuncStacks |->
                 [k \in 1 .. Len(state[i].expandedFuncStacks) |->
                    RemapArray(state[i].expandedFuncStacks[k])],
               selectedMarker     |-> state[i].selectedMarker]]

PushedPrefixes_SkipsFirst(selectedFuncStack) ==
  [i \in 1 .. Max(Len(selectedFuncStack) - 2, 0) |-> SliceTo(selectedFuncStack, i + 1)]

\* A loop that pushes the selected path itself as well.
PushedPrefixes_IncludesSelf(selectedFuncStack) ==
  [i \in 1 .. Len(selectedFuncStack) |-> SliceTo(selectedFuncStack, i)]

\* The for loop of CHANGE_SELECTED_FUNC_STACK: push slice(0, i) for 1 <= i < length.
PushedPrefixes(selectedFuncStack) ==
  [i \in 1 .. Max(Len(selectedFuncStack) - 1, 0) |-> SliceTo(selectedFuncStack, i)]

\* case 'CHANGE_SELECTED_FUNC_STACK'
ChangeSelectedFuncStackResult(state, threadIndex, selectedFuncStack) ==
  LET old == At(state, threadIndex)
      expandedFuncStacks == old.expandedFuncStacks \o PushedPrefixes(selectedFuncStack)
  IN  ReplaceAt(state, threadIndex,
        [old EXCEPT !.selectedFuncStack = selectedFuncStack,
                    !.expandedFuncStacks = expandedFuncStacks])

\* A change of the expanded paths that reaches every thread.
ChangeExpandedFuncStacksResult_AllThreads(state, threadIndex, expandedFuncStacks) ==
  [t \in 1 .. Len(state) |-> [state[t] EXCEPT !.expandedFuncStacks = expandedFuncStacks]]

\* case 'CHANGE_EXPANDED_FUNC_STACKS'
ChangeExpandedFuncStacksResult(state, threadIndex, expandedFuncStacks) ==
  ReplaceAt(state, threadIndex,
    [At(state, threadIndex) EXCEPT !.expandedFuncStacks = expandedFuncStacks])

\* case 'CHANGE_SELECTED_MARKER'
ChangeSelectedMarkerResult(state, threadIndex, selectedMarker) ==
  ReplaceAt(state, threadIndex,
    [At(state, threadIndex) EXCEPT !.selectedMarker = selectedMarker])

AddCallTreeFilterResult_SelectedOnly(state, threadIndex, filter) ==
  LET old == At(state, threadIndex)
  IN  ReplaceAt(state, threadIndex,
        [old EXCEPT !.selectedFuncStack = funcStackAfterCallTreeFilter(@, filter)])

\* case 'ADD_CALL_TREE_FILTER'
AddCallTreeFilterResult(state, threadIndex, filter) ==
  LET old == At(state, threadIndex)
      expandedFuncStacks ==
        [k \in 1 .. Len(old.expandedFuncStacks) |->
           funcStackAfterCallTreeFilter(old.expandedFuncStacks[k], filter)]
      selectedFuncStack  == funcStackAfterCallTreeFilter(old.selectedFuncStack, filter)
  IN  ReplaceAt(state, threadIndex,
        [old EXCEPT !.selectedFuncStack = selectedFuncStack,
                    !.expandedFuncStacks = expandedFuncStacks])

(***************************************************************************)
(* The state the selectors read, and the values they build.                *)
(***************************************************************************)
\* The identity of an object: who made it, for which thread, and which of
\* the objects made there it is.  Two values are the same object iff their
\* ids are equal.
Ref(by, t, gen) == [by |-> by, t |-> t, gen |-> gen]

\* getProfile(state).threads[threadIndex]
getThread(threadIndex) ==
  [id     |-> Ref("profile.threads", threadIndex, profileGen),
   raw    |-> Ref("profile.threads", threadIndex, profileGen),
   stages |-> <<>>]
\* getProfileViewOptions(state): a new object whenever one of its fields changed.
getProfileViewOptions == [id |-> Ref("viewOptions", -1, viewOptionsGen), selection |-> selection]
\* getProfileViewOptions(state).perThread[threadIndex]
getViewOptions(threadIndex) == At(perThread, threadIndex)
\* URLState.getCallTreeFilters(state, threadIndex)
getCallTreeFilters(threadIndex) == url.callTreeFilters[threadIndex + 1]
\* getProfileViewOptions(state).rootRange, set on every profile load.
rootRange == [id |-> Ref("rootRange", -1, profileGen), start |-> 0, end |-> 4]
\* getProfileViewOptions(state).zeroAt
zeroAt == rootRange.start
\* getProfile(state).meta.interval
getProfileInterval == 1

\* The time-range selections the UI dispatches.
NoSelection ==
  [hasSelection |-> FALSE, isModifying |-> FALSE, selectionStart |-> 0, selectionEnd |-> 0]
Selections ==
  { NoSelection,
    [hasSelection |-> TRUE, isModifying |-> FALSE, selectionStart |-> 1, selectionEnd |-> 3],
    [hasSelection |-> TRUE, isModifying |-> TRUE, selectionStart |-> 1, selectionEnd |-> 2] }

\* The call-tree filters the UI adds while the selectors are watched.
AddedFilters ==
  { [type |-> "prefix", prefixFuncs |-> <<0>>, matchJSOnly |-> FALSE],
    [type |-> "other", matchJSOnly |-> FALSE] }

\* The URL state the page starts from: the default one, and one restored
\* from a URL that carries filters and settings for thread 0.
DefaultURL ==
  [selectedThread  |-> 0,
   callTreeFilters |-> << <<>>, <<>> >>,
   jsOnly          |-> FALSE,
   searchString    |-> "",
   invertCallstack |-> FALSE,
   rangeFilters    |-> <<>>]
RestoredURL ==
  [selectedThread  |-> 0,
   callTreeFilters |->
     << << [type |-> "prefix", prefixFuncs |-> <<0, 1>>, matchJSOnly |-> FALSE],
           [type |-> "postfix", postfixFuncs |-> <<2>>, matchJSOnly |-> FALSE] >>,
        <<>> >>,
   jsOnly          |-> TRUE,
   searchString    |-> "a",
   invertCallstack |-> TRUE,
   rangeFilters    |-> <<>>]
InitialURLs == { DefaultURL, RestoredURL }

(***************************************************************************)
(* ProfileData.*, ProfileTree.getCallTree: each filter makes a new thread  *)
(* (id) from the thread it is given and records the stage it applied.      *)
(***************************************************************************)
Derived(thread, id, stage) ==
  [id |-> id, raw |-> thread.raw, stages |-> Append(thread.stages, stage)]
filterThreadToRange(thread, start, end, id) ==
  Derived(thread, id, [stage |-> "range", arg |-> <<start, end>>])
filterThreadToPrefixStack(thread, prefixFuncs, matchJSOnly, id) ==
  Derived(thread, id, [stage |-> "prefix", arg |-> prefixFuncs, matchJSOnly |-> matchJSOnly])
filterThreadToPostfixStack(thread, postfixFuncs, matchJSOnly, id) ==
  Derived(thread, id, [stage |-> "postfix", arg |-> postfixFuncs, matchJSOnly |-> matchJSOnly])
filterThreadToJSOnly(thread, id) == Derived(thread, id, [stage |-> "jsOnly"])
filterThreadToSearchString(thread, searchString, id) ==
  Derived(thread, id, [stage |-> "search", searchString |-> searchString])
invertCallstack(thread, id) == Derived(thread, id, [stage |-> "invert"])
\* ProfileData.getFuncStackInfo(stackTable, frameTable, funcTable) of a thread.
getFuncStackInfoOf(thread, id) == [id |-> id, thread |-> thread.id]
\* ProfileTree.getCallTree(thread, interval, funcStackInfo, jsOnly)
ProfileTreeGetCallTree(thread, interval, funcStackInfo, jsOnly, id) ==
  [id |-> id, thread |-> thread.id, interval |-> interval,
   funcStackInfo |-> funcStackInfo.id, jsOnly |-> jsOnly]

(***************************************************************************)
(* createSelector: one memo cell per selector.                             *)
(***************************************************************************)
\* A cell: the arguments of the selector's last evaluation (args: objects by
\* their ids, primitives by value), what the combining function returned
\* when it last ran (result), and how often it ran (gen).
EmptyCell == [valid |-> FALSE, args |-> <<>>, result |-> <<>>, gen |-> 0]

\* A cache that never returns its cached result.
MemoHit_NeverHits(cell, args) == FALSE

\* The cached result is returned when every argument is identical (===) to
\* the argument of the last call.
MemoHit(cell, args) == cell.valid /\ cell.args = args

\* One evaluation of a selector whose upstream values are args; result is
\* what its combining function returns for them.
Evaluate(cell, args, result) ==
  IF MemoHit(cell, args)
  THEN cell
  ELSE [valid |-> TRUE, args |-> args, result |-> result, gen |-> cell.gen + 1]

\* The selectors of one thread that createSelector builds (lines 350-462).
Nodes ==
  { "getRangeFilteredThread", "_getRangeAndCallTreeFilteredThread",
    "_getJSOnlyFilteredThread", "_getJSOnlyAndSearchFilteredThread",
    "getFilteredThread", "getRangeSelectionFilteredThread",
    "getFuncStackInfo", "getCallTree" }
\* The entry that selectorsForThread(threadIndex) creates, the created-th one.
NewSelectors(created) == [n \in Nodes |-> EmptyCell] @@ ("created" :> created)

UpToFiltered ==
  { "getDisplayRange", "getRangeFilteredThread", "_getRangeAndCallTreeFilteredThread",
    "_getJSOnlyFilteredThread", "_getJSOnlyAndSearchFilteredThread", "getFilteredThread" }
\* The selectors a call of accessor key evaluates: its dependencies, theirs, ...
Needs(key) ==
  CASE key = "getViewOptions" -> {}
    [] key = "getRangeFilteredThread" -> { "getDisplayRange", "getRangeFilteredThread" }
    [] key = "getFilteredThread" -> UpToFiltered
    [] key = "getRangeSelectionFilteredThread" ->
         UpToFiltered \cup { "getRangeSelectionFilteredThread" }
    [] key = "getFuncStackInfo" -> UpToFiltered \cup { "getFuncStackInfo" }
    [] key = "getCallTree" ->
         UpToFiltered \cup { "getRangeSelectionFilteredThread", "getFuncStackInfo", "getCallTree" }

\* What the store holds that the derived views of a thread are made from.
StoreInputs(threadIndex) ==
  [thread |-> getThread(threadIndex).id, rootRange |-> rootRange.id,
   rangeFilters |-> url.rangeFilters, callTreeFilters |-> getCallTreeFilters(threadIndex),
   jsOnly |-> url.jsOnly, searchString |-> url.searchString,
   invertCallstack |-> url.invertCallstack, interval |-> getProfileInterval,
   selection |-> selection]

\* The combining function of getDisplayRange (lines 290-298); id names the
\* object it makes.
getDisplayRange(id) ==
  LET rangeFilters == url.rangeFilters
      lastFilter == rangeFilters[Len(rangeFilters)]
  IN  IF Len(rangeFilters) > 0
      THEN [id |-> id, start |-> lastFilter.start + zeroAt, end |-> lastFilter.end + zeroAt]
      ELSE rootRange

\* A reduce that hands on a filtered copy even when there is no filter.
ReduceFilters_CopiesWhenEmpty(thread, callTreeFilters, id) ==
  [id |-> id, raw |-> thread.raw,
   stages |-> thread.stages \o
     [i \in 1 .. Len(callTreeFilters) |->
        IF callTreeFilters[i].type = "prefix"
        THEN [stage |-> "prefix", arg |-> callTreeFilters[i].prefixFuncs,
              matchJSOnly |-> callTreeFilters[i].matchJSOnly]
        ELSE [stage |-> "postfix", arg |-> callTreeFilters[i].postfixFuncs,
              matchJSOnly |-> callTreeFilters[i].matchJSOnly]]]

\* The filters applied from the last to the first.
ReduceFilters_RightToLeft(thread, callTreeFilters, id) ==
  [id |-> IF Len(callTreeFilters) = 0 THEN thread.id ELSE id,
   raw |-> thread.raw,
   stages |-> thread.stages \o
     [i \in 1 .. Len(callTreeFilters) |->
        LET filter == callTreeFilters[Len(callTreeFilters) + 1 - i]
        IN  IF filter.type = "prefix"
            THEN [stage |-> "prefix", arg |-> filter.prefixFuncs,
                  matchJSOnly |-> filter.matchJSOnly]
            ELSE [stage |-> "postfix", arg |-> filter.postfixFuncs,
                  matchJSOnly |-> filter.matchJSOnly]]]

\* callTreeFilters.reduce((t, filter) => ..., thread) of lines 383-392, for
\* filters that are all prefix or postfix; id names the last thread made.
RECURSIVE ReduceFiltersFrom(_, _, _, _)
ReduceFiltersFrom(t, callTreeFilters, i, id) ==
  IF i > Len(callTreeFilters) THEN t
  ELSE LET filter == callTreeFilters[i]
           next == IF filter.type = "prefix"
                   THEN filterThreadToPrefixStack(t, filter.prefixFuncs, filter.matchJSOnly, id)
                   ELSE filterThreadToPostfixStack(t, filter.postfixFuncs, filter.matchJSOnly, id)
       IN  ReduceFiltersFrom(next, callTreeFilters, i + 1, id)

ReduceFilters(thread, callTreeFilters, id) == ReduceFiltersFrom(thread, callTreeFilters, 1, id)

\* The default branch of the switch (line 390) is reached.
Unhandled(callTreeFilters) ==
  \E i \in 1 .. Len(callTreeFilters) : callTreeFilters[i].type \notin {"prefix", "postfix"}

\* The thread index selected when selectedThreadSelectors was built.
SelectedIndex_Captured == DefaultURL.selectedThread

\* URLState.getSelectedThreadIndex(state), read at every call (line 548).
SelectedIndex == url.selectedThread

\* A selection filter that waits until the selection is no longer modified.
SelectionFiltered_UnlessModifying(thread, viewOptions, id) ==
  IF ~viewOptions.selection.hasSelection \/ viewOptions.selection.isModifying
  THEN thread
  ELSE filterThreadToRange(thread, viewOptions.selection.selectionStart,
                           viewOptions.selection.selectionEnd, id)

\* getRangeSelectionFilteredThread's combining function (lines 420-426).
SelectionFiltered(thread, viewOptions, id) ==
  IF ~viewOptions.selection.hasSelection
  THEN thread
  ELSE filterThreadToRange(thread, viewOptions.selection.selectionStart,
                           viewOptions.selection.selectionEnd, id)

\* The selectors in the order in which one call evaluates them.
Order ==
  << "getDisplayRange", "getRangeFilteredThread", "_getRangeAndCallTreeFilteredThread",
     "_getJSOnlyFilteredThread", "_getJSOnlyAndSearchFilteredThread", "getFilteredThread",
     "getRangeSelectionFilteredThread", "getFuncStackInfo", "getCallTree" >>

\* The values of a selector's dependencies (the first arguments of its
\* createSelector), given the cells c of the selectors evaluated before it.
Args(node, threadIndex, c) ==
  CASE node = "getDisplayRange" -> <<rootRange.id, zeroAt, url.rangeFilters>>
    [] node = "getRangeFilteredThread" ->
         <<getThread(threadIndex).id, c["getDisplayRange"].result.id>>
    [] node = "_getRangeAndCallTreeFilteredThread" ->
         <<c["getRangeFilteredThread"].result.id, getCallTreeFilters(threadIndex)>>
    [] node = "_getJSOnlyFilteredThread" ->
         <<c["_getRangeAndCallTreeFilteredThread"].result.id, url.jsOnly>>
    [] node = "_getJSOnlyAndSearchFilteredThread" ->
         <<c["_getJSOnlyFilteredThread"].result.id, url.searchString>>
    [] node = "getFilteredThread" ->
         <<c["_getJSOnlyAndSearchFilteredThread"].result.id, url.invertCallstack>>
    [] node = "getRangeSelectionFilteredThread" ->
         <<c["getFilteredThread"].result.id, getProfileViewOptions.id>>
    [] node = "getFuncStackInfo" -> <<c["getFilteredThread"].result.id>>
    [] node = "getCallTree" ->
         <<c["getRangeSelectionFilteredThread"].result.id, getProfileInterval,
           c["getFuncStackInfo"].result.id, url.jsOnly>>

\* What a selector's combining function (the last argument of its
\* createSelector) returns for these values; id names the object it makes.
Combine(node, threadIndex, c, id) ==
  CASE node = "getDisplayRange" -> getDisplayRange(id)
    [] node = "getRangeFilteredThread" ->
         filterThreadToRange(getThread(threadIndex), c["getDisplayRange"].result.start,
                             c["getDisplayRange"].result.end, id)
    [] node = "_getRangeAndCallTreeFilteredThread" ->
         ReduceFilters(c["getRangeFilteredThread"].result, getCallTreeFilters(threadIndex), id)
    [] node = "_getJSOnlyFilteredThread" ->
         IF url.jsOnly
         THEN filterThreadToJSOnly(c["_getRangeAndCallTreeFilteredThread"].result, id)
         ELSE c["_getRangeAndCallTreeFilteredThread"].result
    [] node = "_getJSOnlyAndSearchFilteredThread" ->
         filterThreadToSearchString(c["_getJSOnlyFilteredThread"].result, url.searchString, id)
    [] node = "getFilteredThread" ->
         IF url.invertCallstack
         THEN invertCallstack(c["_getJSOnlyAndSearchFilteredThread"].result, id)
         ELSE c["_getJSOnlyAndSearchFilteredThread"].result
    [] node = "getRangeSelectionFilteredThread" ->
         SelectionFiltered(c["getFilteredThread"].result, getProfileViewOptions, id)
    [] node = "getFuncStackInfo" -> getFuncStackInfoOf(c["getFilteredThread"].result, id)
    [] node = "getCallTree" ->
         ProfileTreeGetCallTree(c["getRangeSelectionFilteredThread"].result, getProfileInterval,
                                c["getFuncStackInfo"].result, url.jsOnly, id)

\* One selector evaluated in the course of a call: run holds the cells so
\* far, the selectors evaluated, and whether an exception is propagating.
Step(node, threadIndex, run) ==
  LET c == run.cells
      args == Args(node, threadIndex, c)
      id == Ref(node, IF node = "getDisplayRange" THEN -1 ELSE threadIndex, c[node].gen + 1)
  IN  IF run.threw THEN run
      ELSE IF /\ node = "_getRangeAndCallTreeFilteredThread"
              /\ ~MemoHit(c[node], args)
              /\ Unhandled(getCallTreeFilters(threadIndex))
      THEN [run EXCEPT !.threw = TRUE]
      ELSE [run EXCEPT !.cells[node] = Evaluate(c[node], args,
                                                Combine(node, threadIndex, c, id)),
                       !.evaluated = @ \cup {node}]

RECURSIVE RunFrom(_, _, _, _)
RunFrom(run, i, need, threadIndex) ==
  IF i > Len(Order) THEN run
  ELSE IF Order[i] \notin need THEN RunFrom(run, i + 1, need, threadIndex)
  ELSE CHOOSE done \in { RunFrom(next, i + 1, need, threadIndex) :
                           next \in { Step(Order[i], threadIndex, run) } } : TRUE

\* One call selectorsForThread(threadIndex)[key](state) on the current state,
\* given the thread's cells and the cell of getDisplayRange: the cells after
\* the call, the selectors it evaluated, whether it threw, what it returned.
CallSelector(threadIndex, key, cells, drCell) ==
  LET start == [cells |-> cells @@ ("getDisplayRange" :> drCell), evaluated |-> {},
                threw |-> FALSE]
  IN  CHOOSE r \in
        { [cells |-> [n \in DOMAIN cells |-> run.cells[n]],
           displayRange |-> run.cells["getDisplayRange"],
           evaluated |-> run.evaluated,
           threw |-> run.threw,
           result |-> IF run.threw THEN <<>>
                      ELSE IF key = "getViewOptions" THEN getViewOptions(threadIndex)
                      ELSE run.cells[key]["result"]] :
          run \in { RunFrom(start, 1, Needs(key), threadIndex) } } : TRUE

NoQuery ==
  [via |-> "none", threadIndex |-> -1, key |-> "none", at |-> -1, inputs |-> <<>>,
   since |-> {}, before |-> <<>>, evaluated |-> {}, threw |-> FALSE, result |-> <<>>]

\* The RequestedLib objects ({pdbName, breakpadId}, line 26) the actions
\* carry.  A Set holds objects by reference: object tells apart two objects
\* that describe the same lib.
RequestedLibs ==
  { [pdbName |-> "xul.pdb", breakpadId |-> "A", object |-> 1],
    [pdbName |-> "xul.pdb", breakpadId |-> "A", object |-> 2],
    [pdbName |-> "libc.pdb", breakpadId |-> "B", object |-> 1],
    [pdbName |-> "libc.pdb", breakpadId |-> "B", object |-> 2] }

\* The lib a RequestedLib object describes.
LibOf(requestedLib) ==
  [pdbName |-> requestedLib.pdbName, breakpadId |-> requestedLib.breakpadId]

Libs == { LibOf(requestedLib) : requestedLib \in RequestedLibs }

\* No action has named any lib.
NoNaming ==
  [lib |-> [l \in Libs |-> "none"], object |-> [o \in RequestedLibs |-> "none"]]

(***************************************************************************)
(* The store: one action per dispatched action type.  Spec steps the        *)
(* reducer viewOptionsPerThread alone, with every input it accepts; what   *)
(* the selectors read besides perThread stays as it was constructed.       *)
(***************************************************************************)
InitWith(initialURL) ==
  /\ perThread = <<>>
  /\ last = NoAction
  /\ prev = <<>>
  /\ raised = FALSE
  /\ nEvents = 0
  /\ profileGen = 0
  /\ viewOptionsGen = 0
  /\ selection = NoSelection
  /\ url = initialURL
  \* selectedThreadSelectors (line 545) has called selectorsForThread(0).
  /\ selectorsForThreads = (0 :> NewSelectors(1))
  /\ displayRangeCell = EmptyCell
  /\ query = NoQuery
  /\ sinceTree = <<{}, {}>>
  /\ nQueries = 0
  /\ waitingForLibs = {}
  /\ prevWaitingForLibs = {}
  /\ lastNaming = NoNaming

Init == InitWith(DefaultURL)

Dispatch(type, threadIndex, arg, result) ==
  /\ nEvents < MaxEvents
  /\ nEvents' = nEvents + 1
  /\ prev' = perThread
  /\ last' = [type |-> type, threadIndex |-> threadIndex, arg |-> arg]
  /\ perThread' = result
  /\ raised' = FALSE

ReceiveProfile ==
  \E nThreads \in ThreadCounts :
    /\ Dispatch("RECEIVE_PROFILE", -1, nThreads, ReceiveProfileResult(perThread, nThreads))
    /\ UNCHANGED <<selVars, libVars>>

CoalescedFunctionsUpdate ==
  \E functionsUpdatePerThread \in [1 .. Len(perThread) -> Updates] :
    /\ Len(perThread) > 0
    /\ Dispatch("COALESCED_FUNCTIONS_UPDATE", -1, functionsUpdatePerThread,
                CoalescedFunctionsUpdateResult(perThread, functionsUpdatePerThread))
    /\ UNCHANGED <<selVars, libVars>>

ChangeSelectedFuncStack ==
  \E threadIndex \in ThreadIndices(perThread), selectedFuncStack \in Paths :
    /\ Dispatch("CHANGE_SELECTED_FUNC_STACK", threadIndex, selectedFuncStack,
                ChangeSelectedFuncStackResult(perThread, threadIndex, selectedFuncStack))
    /\ UNCHANGED <<selVars, libVars>>

ChangeExpandedFuncStacks ==
  \E threadIndex \in ThreadIndices(perThread), expandedFuncStacks \in ExpandedInputs :
    /\ Dispatch("CHANGE_EXPANDED_FUNC_STACKS", threadIndex, expandedFuncStacks,
                ChangeExpandedFuncStacksResult(perThread, threadIndex, expandedFuncStacks))
    /\ UNCHANGED <<selVars, libVars>>

ChangeSelectedMarker ==
  \E threadIndex \in ThreadIndices(perThread), selectedMarker \in Markers :
    /\ Dispatch("CHANGE_SELECTED_MARKER", threadIndex, selectedMarker,
                ChangeSelectedMarkerResult(perThread, threadIndex, selectedMarker))
    /\ UNCHANGED <<selVars, libVars>>

AddCallTreeFilter ==
  \E threadIndex \in ThreadIndices(perThread), filter \in Filters :
    /\ Dispatch("ADD_CALL_TREE_FILTER", threadIndex, filter,
                AddCallTreeFilterResult(perThread, threadIndex, filter))
    /\ UNCHANGED <<selVars, libVars>>

Next ==
  \/ ReceiveProfile
  \/ CoalescedFunctionsUpdate
  \/ ChangeSelectedFuncStack
  \/ ChangeExpandedFuncStacks
  \/ ChangeSelectedMarker
  \/ AddCallTreeFilter

Spec == Init /\ [][Next]_vars

\* The reducer stepped by every action it handles except
\* CHANGE_EXPANDED_FUNC_STACKS: the expanded paths change only through
\* selections and remaps.
NextRemaps ==
  \/ ReceiveProfile
  \/ CoalescedFunctionsUpdate
  \/ ChangeSelectedFuncStack
  \/ ChangeSelectedMarker
  \/ AddCallTreeFilter

SpecRemaps == Init /\ [][NextRemaps]_vars

(***************************************************************************)
(* The store with its selectors: the actions the other reducers of the     *)
(* store handle as well, and the calls of the selectors between them.      *)
(***************************************************************************)
\* The action types for which some reducer under viewOptions (lines 107-251)
\* returns a new value, so that combineReducers makes a new viewOptions.
ChangesViewOptions(type) ==
  type \in { "RECEIVE_PROFILE", "COALESCED_FUNCTIONS_UPDATE", "CHANGE_SELECTED_FUNC_STACK",
             "CHANGE_EXPANDED_FUNC_STACKS", "CHANGE_SELECTED_MARKER", "ADD_CALL_TREE_FILTER",
             "UPDATE_PROFILE_SELECTION", "CHANGE_INVERT_CALLSTACK", "CHANGE_JS_ONLY",
             "CHANGE_SELECTED_THREAD" }

\* One action through the whole store: perThread as viewOptionsPerThread
\* returns it, the selection, the URL state, and the identities that change.
StoreDispatch(type, threadIndex, arg, result, newSelection, newURL) ==
  /\ Dispatch(type, threadIndex, arg, result)
  /\ selection' = newSelection
  /\ url' = newURL
  /\ profileGen' = IF type = "RECEIVE_PROFILE" THEN profileGen + 1 ELSE profileGen
  /\ viewOptionsGen' = IF ChangesViewOptions(type) THEN viewOptionsGen + 1 ELSE viewOptionsGen
  /\ sinceTree' = [i \in DOMAIN sinceTree |-> sinceTree[i] \cup {type}]
  /\ UNCHANGED <<selectorsForThreads, displayRangeCell, query, nQueries>>
  /\ UNCHANGED libVars

\* The profile has been received: the UI that dispatches the rest and calls
\* the selectors is shown.  One profile is received in a run.
Loaded == Len(perThread) > 0

OnReceiveProfile ==
  \E nThreads \in ThreadCounts :
    /\ ~Loaded
    /\ StoreDispatch("RECEIVE_PROFILE", -1, nThreads, ReceiveProfileResult(perThread, nThreads),
                     selection, url)

OnChangeSelectedMarker ==
  \E threadIndex \in ThreadIndices(perThread) :
    /\ Loaded
    /\ StoreDispatch("CHANGE_SELECTED_MARKER", threadIndex, 0,
                     ChangeSelectedMarkerResult(perThread, threadIndex, 0), selection, url)

OnUpdateProfileSelection ==
  \E newSelection \in Selections :
    /\ Loaded
    /\ StoreDispatch("UPDATE_PROFILE_SELECTION", -1, newSelection, perThread, newSelection, url)

OnAddCallTreeFilter ==
  \E threadIndex \in ThreadIndices(perThread), filter \in AddedFilters :
    /\ Loaded
    /\ StoreDispatch("ADD_CALL_TREE_FILTER", threadIndex, filter,
                     AddCallTreeFilterResult(perThread, threadIndex, filter), selection,
                     [url EXCEPT !.callTreeFilters[threadIndex + 1] = Append(@, filter)])

OnChangeJSOnly ==
  \E jsOnly \in BOOLEAN \ {url.jsOnly} :
    /\ Loaded
    /\ StoreDispatch("CHANGE_JS_ONLY", -1, jsOnly, perThread, selection,
                     [url EXCEPT !.jsOnly = jsOnly])

OnChangeInvertCallstack ==
  \E invert \in BOOLEAN \ {url.invertCallstack} :
    /\ Loaded
    /\ StoreDispatch("CHANGE_INVERT_CALLSTACK", -1, invert, perThread, selection,
                     [url EXCEPT !.invertCallstack = invert])

OnChangeCallTreeSearchString ==
  \E searchString \in {"", "a"} \ {url.searchString} :
    /\ Loaded
    /\ StoreDispatch("CHANGE_CALL_TREE_SEARCH_STRING", -1, searchString, perThread, selection,
                     [url EXCEPT !.searchString = searchString])

OnAddRangeFilter ==
  \E range \in { [start |-> 1, end |-> 3] } :
    /\ Loaded
    /\ StoreDispatch("ADD_RANGE_FILTER", -1, range, perThread, selection,
                     [url EXCEPT !.rangeFilters = Append(@, range)])

OnChangeSelectedThread ==
  \E selectedThread \in ThreadIndices(perThread) \ {url.selectedThread} :
    /\ Loaded
    /\ StoreDispatch("CHANGE_SELECTED_THREAD", -1, selectedThread, perThread, selection,
                     [url EXCEPT !.selectedThread = selectedThread])

\* The accessors of a thread's selector set that are called.
Keys == { "getViewOptions", "getFilteredThread", "getCallTree" }

\* A selectorsForThread that builds a new selector set at every call.
selectorsForThread_Recreates(threadIndex) ==
  [i \in DOMAIN selectorsForThreads \cup {threadIndex} |->
     IF i = threadIndex
     THEN NewSelectors(Cardinality(DOMAIN selectorsForThreads) + 1)
     ELSE selectorsForThreads[i]]

\* selectorsForThread(threadIndex) (lines 340-542): the registry afterwards.
selectorsForThread(threadIndex) ==
  IF threadIndex \in DOMAIN selectorsForThreads
  THEN selectorsForThreads
  ELSE selectorsForThreads @@
         (threadIndex :> NewSelectors(Cardinality(DOMAIN selectorsForThreads) + 1))

\* What a call remembers of the cells it found: for each selector whether it
\* held a result, which one, for which arguments, and how often it had run.
Summary(cells, drCell) ==
  [n \in Nodes \cup {"getDisplayRange"} |->
     LET cell == IF n = "getDisplayRange" THEN drCell ELSE cells[n]
     IN  [valid |-> cell.valid, args |-> cell.args, gen |-> cell.gen,
          result |-> IF cell.valid THEN cell.result.id ELSE Ref("none", -1, 0)]]

\* selectorsForThread(threadIndex)[key](state), reached directly ("thread")
\* or through selectedThreadSelectors ("selected").
Call(via, threadIndex, key) ==
  /\ nQueries < MaxQueries
  /\ \E registry \in { selectorsForThread(threadIndex) } :
     \E r \in { CallSelector(threadIndex, key, registry[threadIndex], displayRangeCell) } :
      /\ nQueries' = nQueries + 1
      /\ selectorsForThreads' = [registry EXCEPT ![threadIndex] = r.cells]
      /\ displayRangeCell' = r.displayRange
      /\ raised' = r.threw
      /\ query' = [via |-> via, threadIndex |-> threadIndex, key |-> key, at |-> nEvents,
                   inputs |-> StoreInputs(threadIndex), since |-> sinceTree[threadIndex + 1],
                   before |-> Summary(registry[threadIndex], displayRangeCell),
                   evaluated |-> r.evaluated, threw |-> r.threw, result |-> r.result]
      /\ sinceTree' = IF "getCallTree" \in r.evaluated
                      THEN [sinceTree EXCEPT ![threadIndex + 1] = {}]
                      ELSE sinceTree
      /\ UNCHANGED <<perThread, last, prev, nEvents, profileGen, viewOptionsGen, selection, url>>
      /\ UNCHANGED libVars

CallSelectorsForThread ==
  \E threadIndex \in ThreadIndices(perThread), key \in Keys :
    /\ Loaded
    /\ Call("thread", threadIndex, key)

\* selectedThreadSelectors[key](state) (line 548)
CallSelectedThreadSelectors ==
  \E key \in Keys :
    /\ Loaded
    /\ SelectedIndex \in ThreadIndices(perThread)
    /\ Call("selected", SelectedIndex, key)

NextSelectors ==
  \/ OnReceiveProfile
  \/ OnChangeSelectedMarker
  \/ OnUpdateProfileSelection
  \/ OnAddCallTreeFilter
  \/ OnChangeJSOnly
  \/ OnChangeInvertCallstack
  \/ OnChangeCallTreeSearchString
  \/ OnAddRangeFilter
  \/ OnChangeSelectedThread
  \/ CallSelectorsForThread
  \/ CallSelectedThreadSelectors

InitSelectors == \E initialURL \in InitialURLs : InitWith(initialURL)

SpecSelectors == InitSelectors /\ [][NextSelectors]_vars

(***************************************************************************)
(* Properties of the reducer, checked under Spec.                          *)
(***************************************************************************)
Range(seq) == { seq[i] : i \in 1 .. Len(seq) }
AddedFilter == last.type = "ADD_CALL_TREE_FILTER"
AddedPrefixFilter == AddedFilter /\ last.arg.type = "prefix"
\* The ThreadViewOptions of the thread the last action named, before and after.
Old == At(prev, last.threadIndex)
New == At(perThread, last.threadIndex)
\* A path is shorter than the prefix, or differs from it at a common position.
Invalidated(prefixFuncs, path) ==
  \/ Len(path) < Len(prefixFuncs)
  \/ \E i \in 1 .. Min(Len(prefixFuncs), Len(path)) : prefixFuncs[i] # path[i]
\* The remap of C1 for a prefix of length L, 1 <= L <= |P|.
ExpectedRemap(prefixFuncs, path) ==
  IF SubSeq(path, 1, Len(prefixFuncs)) = prefixFuncs
  THEN SubSeq(path, Len(prefixFuncs), Len(path))
  ELSE <<>>
IsPath(p) == p \in Seq(Funcs)
IsThreadViewOptions(o) ==
  /\ DOMAIN o = {"selectedFuncStack", "expandedFuncStacks", "selectedMarker"}
  /\ IsPath(o.selectedFuncStack)
  /\ \A i \in 1 .. Len(o.expandedFuncStacks) : IsPath(o.expandedFuncStacks[i])
  /\ o.selectedMarker \in Markers

\* C1: a non-JS-only prefix filter with prefix length L, 1 <= L <= |P|, remaps
\* a path P (the selected path and every expanded path) to P from 0-based
\* position L-1 on when P's first L ids equal the prefix, and to the empty
\* path when they differ somewhere.
C1_PrefixRemapKeepsBoundary ==
  (AddedPrefixFilter /\ ~last.arg.matchJSOnly /\ Len(last.arg.prefixFuncs) >= 1) =>
    LET prefixFuncs == last.arg.prefixFuncs
        Covered(P) == Len(prefixFuncs) <= Len(P)
    IN  /\ Covered(Old.selectedFuncStack) =>
             New.selectedFuncStack = ExpectedRemap(prefixFuncs, Old.selectedFuncStack)
        /\ Len(New.expandedFuncStacks) = Len(Old.expandedFuncStacks)
        /\ \A i \in 1 .. Len(Old.expandedFuncStacks) :
             Covered(Old.expandedFuncStacks[i]) =>
               New.expandedFuncStacks[i] =
                 ExpectedRemap(prefixFuncs, Old.expandedFuncStacks[i])

\* A matching prefix of length 2 was cut from a longer selected path, and its
\* boundary function is now the first element.
C1_Witness ==
  /\ AddedPrefixFilter /\ ~last.arg.matchJSOnly
  /\ Len(last.arg.prefixFuncs) = 2
  /\ Len(Old.selectedFuncStack) = 3
  /\ SubSeq(Old.selectedFuncStack, 1, 2) = last.arg.prefixFuncs
  /\ New.selectedFuncStack = SubSeq(Old.selectedFuncStack, 2, 3)
  /\ Len(Old.expandedFuncStacks) > 0

\* What C2 says of one prefix filter: every invalidated path is now empty,
\* nothing was raised, and the thread still has well-formed view options.
InvalidatedPathsEmptied ==
  LET prefixFuncs == last.arg.prefixFuncs
  IN  /\ ~raised
      /\ Len(perThread) = Len(prev)
      /\ IsThreadViewOptions(New)
      /\ Invalidated(prefixFuncs, Old.selectedFuncStack) => New.selectedFuncStack = <<>>
      /\ Len(New.expandedFuncStacks) = Len(Old.expandedFuncStacks)
      /\ \A i \in 1 .. Len(Old.expandedFuncStacks) :
           Invalidated(prefixFuncs, Old.expandedFuncStacks[i]) =>
             New.expandedFuncStacks[i] = <<>>

\* C2 (as stated): after any prefix filter is added, a persisted path shorter
\* than the prefix or disagreeing with it is the empty path, without an error.
C2_InvalidationIsAValue == AddedPrefixFilter => InvalidatedPathsEmptied

\* C2 (amended): the same, for prefix filters whose matchJSOnly flag is false.
C2_InvalidationIsAValueNonJSOnly ==
  (AddedPrefixFilter /\ ~last.arg.matchJSOnly) => InvalidatedPathsEmptied

\* A non-empty selected path that disagrees with the prefix after its first
\* element, and a shorter expanded path, were both emptied.
C2_Witness ==
  /\ AddedPrefixFilter /\ ~last.arg.matchJSOnly
  /\ Len(last.arg.prefixFuncs) = 2
  /\ Len(Old.selectedFuncStack) >= 2
  /\ Old.selectedFuncStack[1] = last.arg.prefixFuncs[1]
  /\ Old.selectedFuncStack[2] # last.arg.prefixFuncs[2]
  /\ New.selectedFuncStack = <<>>
  /\ \E i \in 1 .. Len(Old.expandedFuncStacks) :
       /\ Len(Old.expandedFuncStacks[i]) = 1
       /\ New.expandedFuncStacks[i] = <<>>
  /\ ~raised

\* The remap applied to the selected path and to every expanded path.
RemapApplied ==
  LET prefixFuncs == last.arg.prefixFuncs
  IN  /\ New.selectedFuncStack =
           removePrefixFromFuncArray(prefixFuncs, Old.selectedFuncStack)
      /\ Len(New.expandedFuncStacks) = Len(Old.expandedFuncStacks)
      /\ \A i \in 1 .. Len(Old.expandedFuncStacks) :
           New.expandedFuncStacks[i] =
             removePrefixFromFuncArray(prefixFuncs, Old.expandedFuncStacks[i])

\* C3 (as stated): a prefix filter, whatever its matchJSOnly flag, remaps the
\* thread's selected path and every expanded path.
C3_RemapAppliedToAllPaths == AddedPrefixFilter => RemapApplied

\* C3 (amended): a prefix filter with matchJSOnly = false remaps the selected
\* path and every expanded path; one with matchJSOnly = true leaves both as
\* they were.
C3_RemapAppliedUnlessJSOnly ==
  AddedPrefixFilter =>
    IF last.arg.matchJSOnly
    THEN /\ New.selectedFuncStack = Old.selectedFuncStack
         /\ New.expandedFuncStacks = Old.expandedFuncStacks
    ELSE RemapApplied

\* A non-JS-only prefix filter changed the selected path and an expanded path.
C3_Witness ==
  /\ AddedPrefixFilter /\ ~last.arg.matchJSOnly
  /\ New.selectedFuncStack # Old.selectedFuncStack
  /\ New.selectedFuncStack # <<>>
  /\ \E i \in 1 .. Len(Old.expandedFuncStacks) :
       New.expandedFuncStacks[i] # Old.expandedFuncStacks[i]

\* C4: right after a selected-func-stack-changed event with path S, the
\* thread's expandedFuncStacks holds S[0..k) for every 1 <= k < |S|.
C4_AncestorsExpandedAfterSelection ==
  last.type = "CHANGE_SELECTED_FUNC_STACK" =>
    \A k \in 1 .. (Len(last.arg) - 1) :
      SubSeq(last.arg, 1, k) \in Range(New.expandedFuncStacks)

\* A path of length 3 was selected on a thread that already had an expanded
\* entry which is none of its prefixes.
C4_Witness ==
  /\ last.type = "CHANGE_SELECTED_FUNC_STACK"
  /\ Len(last.arg) = 3
  /\ \E i \in 1 .. Len(Old.expandedFuncStacks) :
       Old.expandedFuncStacks[i] # SubSeq(last.arg, 1, Len(Old.expandedFuncStacks[i]))
  /\ New.selectedFuncStack = last.arg

\* The image of a function id under an old -> new map given as entries.
Image(map, f) ==
  IF f \in { e[1] : e \in map }
  THEN (CHOOSE e \in map : e[1] = f)[2]
  ELSE f
ImagePath(map, path) == [j \in 1 .. Len(path) |-> Image(map, path[j])]

\* C5: a functions-coalesced event maps every id of the selected path and of
\* every expanded path of each thread with an update entry through that
\* thread's map (absent ids kept), keeps lengths, number and order of entries
\* and selectedMarker, and leaves the threads without an entry unchanged.
C5_CoalescedRemap ==
  last.type = "COALESCED_FUNCTIONS_UPDATE" =>
    /\ Len(perThread) = Len(prev)
    /\ \A t \in 1 .. Len(prev) :
         IF last.arg[t].present
         THEN LET map == last.arg[t].oldFuncToNewFuncMap
              IN  /\ perThread[t].selectedFuncStack =
                       ImagePath(map, prev[t].selectedFuncStack)
                  /\ Len(perThread[t].expandedFuncStacks) = Len(prev[t].expandedFuncStacks)
                  /\ \A i \in 1 .. Len(prev[t].expandedFuncStacks) :
                       perThread[t].expandedFuncStacks[i] =
                         ImagePath(map, prev[t].expandedFuncStacks[i])
                  /\ perThread[t].selectedMarker = prev[t].selectedMarker
         ELSE perThread[t] = prev[t]

\* One thread had an update entry that maps one id of its selected path and
\* not another, and the other thread had no entry.
C5_Witness ==
  /\ last.type = "COALESCED_FUNCTIONS_UPDATE"
  /\ Len(prev) = 2
  /\ \E t \in 1 .. 2 :
       /\ last.arg[t].present
       /\ ~last.arg[3 - t].present
       /\ LET map == last.arg[t].oldFuncToNewFuncMap
              sel == prev[t].selectedFuncStack
          IN  /\ \E j \in 1 .. Len(sel) : Image(map, sel[j]) # sel[j]
              /\ \E j \in 1 .. Len(sel) : sel[j] \notin { e[1] : e \in map }
              /\ perThread[t].selectedFuncStack # sel
              /\ Len(prev[t].expandedFuncStacks) > 0

\* C6: a call-tree filter whose variant tag is neither prefix nor postfix
\* raises an error when it is added to the view state.
C6_UnknownFilterRaisesOnAdd ==
  (AddedFilter /\ last.arg.type \notin {"prefix", "postfix"}) => raised



\* C13: a profile load replaces the per-thread view options by one entry per
\* thread of the loaded profile, each with an empty selected path, no expanded
\* paths and no selected marker, whatever the view options were before.
C13_LoadResetsViewOptions ==
  last.type = "RECEIVE_PROFILE" =>
    /\ Len(perThread) = last.arg
    /\ \A t \in 1 .. Len(perThread) :
         /\ perThread[t].selectedFuncStack = <<>>
         /\ perThread[t].expandedFuncStacks = <<>>
         /\ perThread[t].selectedMarker = NoMarker

\* A load of a two-thread profile over one thread that had a selected path,
\* expanded paths and a selected marker.
C13_Witness ==
  /\ last.type = "RECEIVE_PROFILE"
  /\ last.arg = 2
  /\ Len(prev) = 1
  /\ prev[1].selectedFuncStack # <<>>
  /\ prev[1].expandedFuncStacks # <<>>
  /\ raised = FALSE

\* A non-JS-only prefix filter whose prefix is the one function A was added
\* to a thread whose selected path was [A, B, C].
PrefixAOnPathABC ==
  /\ AddedPrefixFilter /\ ~last.arg.matchJSOnly
  /\ Len(Old.selectedFuncStack) = 3
  /\ last.arg.prefixFuncs = << Old.selectedFuncStack[1] >>

\* C14 as stated: the selected path [A, B, C] becomes [B, C].
C14_PrefixADropsA ==
  PrefixAOnPathABC => New.selectedFuncStack = SubSeq(Old.selectedFuncStack, 2, 3)

\* C14: after a non-JS-only prefix filter with prefix [A] is added to a
\* thread whose selected path is [A, B, C], the selected path is [A, B, C]:
\* the last function of the prefix is kept as the new root.
C14_PrefixAKeepsA ==
  PrefixAOnPathABC => New.selectedFuncStack = Old.selectedFuncStack

\* The scenario of C14 happened: prefix [0] on the selected path [0, 1, 2].
C14_Witness ==
  /\ PrefixAOnPathABC
  /\ Old.selectedFuncStack = <<0, 1, 2>>
  /\ New.selectedFuncStack = <<0, 1, 2>>

\* The strict non-empty prefixes of a path.
StrictPrefixes(path) == { SubSeq(path, 1, k) : k \in 1 .. (Len(path) - 1) }

\* Every thread but the one the last action named is as it was.
OtherThreadsUnchanged ==
  /\ Len(perThread) = Len(prev)
  /\ \A t \in 1 .. Len(prev) : t # last.threadIndex + 1 => perThread[t] = prev[t]

\* C17: selecting path S on thread i sets the thread's selected path to S and
\* makes its expanded paths, as a set, the previous set together with the
\* strict non-empty prefixes of S.
C17_SelectionExpandsStrictPrefixes ==
  last.type = "CHANGE_SELECTED_FUNC_STACK" =>
    /\ New.selectedFuncStack = last.arg
    /\ Range(New.expandedFuncStacks)
         = Range(Old.expandedFuncStacks) \cup StrictPrefixes(last.arg)

\* A path of length 3 was selected on a thread that had an expanded path
\* which is not one of its prefixes; the path itself was not added.
C17_Witness ==
  /\ last.type = "CHANGE_SELECTED_FUNC_STACK"
  /\ Len(last.arg) = 3
  /\ Range(Old.expandedFuncStacks) \ StrictPrefixes(last.arg) # {}
  /\ last.arg \notin Range(New.expandedFuncStacks)
  /\ <<>> \notin Range(New.expandedFuncStacks)

\* C18: a change of the expanded paths of thread i replaces that field with
\* the value supplied, a change of the selected marker of thread i replaces
\* that field; the thread's other two fields, every other thread and the
\* number of threads stay as they were.
C18_ExpandedAndMarkerFrame ==
  /\ last.type = "CHANGE_EXPANDED_FUNC_STACKS" =>
       /\ New.expandedFuncStacks = last.arg
       /\ New.selectedFuncStack = Old.selectedFuncStack
       /\ New.selectedMarker = Old.selectedMarker
       /\ OtherThreadsUnchanged
  /\ last.type = "CHANGE_SELECTED_MARKER" =>
       /\ New.selectedMarker = last.arg
       /\ New.selectedFuncStack = Old.selectedFuncStack
       /\ New.expandedFuncStacks = Old.expandedFuncStacks
       /\ OtherThreadsUnchanged

\* The expanded paths of one of two threads were replaced by a different
\* non-empty value while the thread had a selected path.
C18_Witness ==
  /\ last.type = "CHANGE_EXPANDED_FUNC_STACKS"
  /\ Len(perThread) = 2
  /\ last.arg # <<>>
  /\ Old.expandedFuncStacks # <<>>
  /\ Old.expandedFuncStacks # last.arg
  /\ Old.selectedFuncStack # <<>>

\* C20: a non-JS-only prefix filter with the empty prefix leaves the selected
\* path and every expanded path of the thread as they were.
C20_EmptyPrefixChangesNothing ==
  (AddedPrefixFilter /\ ~last.arg.matchJSOnly /\ last.arg.prefixFuncs = <<>>) =>
    /\ New.selectedFuncStack = Old.selectedFuncStack
    /\ New.expandedFuncStacks = Old.expandedFuncStacks

\* What the reducer does with the empty prefix: every path keeps its last
\* function only.
C20_EmptyPrefixKeepsLastOnly ==
  (AddedPrefixFilter /\ ~last.arg.matchJSOnly /\ last.arg.prefixFuncs = <<>>) =>
    /\ New.selectedFuncStack = SliceFrom(Old.selectedFuncStack, -1)
    /\ Len(New.expandedFuncStacks) = Len(Old.expandedFuncStacks)
    /\ \A i \in 1 .. Len(Old.expandedFuncStacks) :
         New.expandedFuncStacks[i] = SliceFrom(Old.expandedFuncStacks[i], -1)

\* The empty prefix was added to a thread whose selected path had 3 functions.
C20_WitnessKeepsLastOnly ==
  /\ AddedPrefixFilter /\ ~last.arg.matchJSOnly /\ last.arg.prefixFuncs = <<>>
  /\ Len(Old.selectedFuncStack) = 3
  /\ Len(New.selectedFuncStack) = 1

\* C21: as long as no CHANGE_EXPANDED_FUNC_STACKS is dispatched, the expanded
\* paths of every thread contain every strict non-empty prefix of the
\* thread's selected path, through selections, call-tree filters of any
\* kind, function merges and marker changes.
C21_AncestorsStayExpanded ==
  \A t \in 1 .. Len(perThread) :
    StrictPrefixes(perThread[t].selectedFuncStack) \subseteq Range(perThread[t].expandedFuncStacks)

\* A non-JS-only prefix filter of length 2 cut a selected path of 3 functions
\* down to 2, whose one strict prefix is among the remapped expanded paths.
C21_Witness ==
  /\ AddedPrefixFilter /\ ~last.arg.matchJSOnly
  /\ Len(last.arg.prefixFuncs) = 2
  /\ Len(Old.selectedFuncStack) = 3
  /\ Len(New.selectedFuncStack) = 2
  /\ SubSeq(New.selectedFuncStack, 1, 1) \in Range(New.expandedFuncStacks)
  /\ SubSeq(New.selectedFuncStack, 1, 1) \notin Range(Old.expandedFuncStacks)

\* Functions were merged in a thread whose selected path had 3 functions.
C21_WitnessCoalesced ==
  /\ last.type = "COALESCED_FUNCTIONS_UPDATE"
  /\ \E t \in 1 .. Len(prev) :
       /\ Len(prev[t].selectedFuncStack) = 3
       /\ perThread[t].selectedFuncStack # prev[t].selectedFuncStack

(***************************************************************************)
(* waitingForLibs: the libs whose symbol tables have been requested.       *)
(***************************************************************************)

RequestingSymbolTableResult_Toggles(state, requestedLib) ==
  IF requestedLib \in state THEN state \ {requestedLib} ELSE state \cup {requestedLib}

\* case 'REQUESTING_SYMBOL_TABLE': new Set(state) with requestedLib added.
RequestingSymbolTableResult(state, requestedLib) == state \cup {requestedLib}

\* case 'RECEIVED_SYMBOL_TABLE_REPLY': new Set(state) with requestedLib deleted.
ReceivedSymbolTableReplyResult(state, requestedLib) == state \ {requestedLib}

\* One action through waitingForLibs; viewOptionsPerThread returns its state.
LibDispatch(type, requestedLib, result) ==
  /\ Dispatch(type, -1, requestedLib, perThread)
  /\ prevWaitingForLibs' = waitingForLibs
  /\ waitingForLibs' = result
  /\ lastNaming' = [lastNaming EXCEPT !.lib[LibOf(requestedLib)] = type,
                                      !.object[requestedLib] = type]
  /\ UNCHANGED selVars

RequestingSymbolTable ==
  \E requestedLib \in RequestedLibs :
    /\ requestedLib \in RequestedLibs
    /\ LibDispatch("REQUESTING_SYMBOL_TABLE", requestedLib,
                   RequestingSymbolTableResult(waitingForLibs, requestedLib))

ReceivedSymbolTableReply ==
  \E requestedLib \in RequestedLibs :
    /\ requestedLib \in RequestedLibs
    /\ LibDispatch("RECEIVED_SYMBOL_TABLE_REPLY", requestedLib,
                   ReceivedSymbolTableReplyResult(waitingForLibs, requestedLib))

NextLibs ==
  \/ RequestingSymbolTable
  \/ ReceivedSymbolTableReply

SpecLibs == Init /\ [][NextLibs]_vars

(***************************************************************************)
(* Properties of waitingForLibs.                                           *)
(***************************************************************************)
\* The last action added a lib that was a member, or removed one that was not.
DuplicateAdd == last.type = "REQUESTING_SYMBOL_TABLE" /\ last.arg \in prevWaitingForLibs
AbsentRemove == last.type = "RECEIVED_SYMBOL_TABLE_REPLY" /\ last.arg \notin prevWaitingForLibs

\* C12: adding a lib that is a member, or removing a lib that is not, leaves
\* the membership of the set as it was and raises no error.
C12_DuplicateAddRemoveIdempotent ==
  (DuplicateAdd \/ AbsentRemove) => (waitingForLibs = prevWaitingForLibs /\ ~raised)

\* A lib added twice to a set that holds another lib as well.
C12_Witness == DuplicateAdd /\ Cardinality(waitingForLibs) = 2

\* C22: a lib is in the pending set (some member describes it) if and only
\* if the last action that named the lib was a request; so the set is empty
\* once the last action naming each lib is a reply.
C22_MemberIffLastWasRequest ==
  /\ \A l \in Libs :
       (\E o \in waitingForLibs : LibOf(o) = l)
         <=> lastNaming.lib[l] = "REQUESTING_SYMBOL_TABLE"
  /\ (\A l \in Libs : lastNaming.lib[l] # "REQUESTING_SYMBOL_TABLE") => waitingForLibs = {}

\* What the reducer does satisfy: a RequestedLib object is a member if and
\* only if the last action that carried this very object was a request.
C22_ObjectMemberIffLastWasRequest ==
  \A o \in RequestedLibs :
    o \in waitingForLibs <=> lastNaming.object[o] = "REQUESTING_SYMBOL_TABLE"

\* Requests for two libs were answered in the other order, each reply with
\* the object of the request: the set is empty again.
C22_WitnessSameObjects ==
  /\ nEvents = 3
  /\ last.type = "RECEIVED_SYMBOL_TABLE_REPLY"
  /\ prevWaitingForLibs = {last.arg}
  /\ waitingForLibs = {}
  /\ \E l \in Libs : lastNaming.lib[l] = "REQUESTING_SYMBOL_TABLE" \/ lastNaming.lib[l] = "none"

(***************************************************************************)
(* Properties of the selectors.                                            *)
(***************************************************************************)
\* A selector has been called.
Queried == query.via # "none"

\* The cells of the thread the last call was made for, as the call left them.
CellsNow == selectorsForThreads[query.threadIndex] @@ ("getDisplayRange" :> displayRangeCell)

\* The last call found a result in the cell of n and ran n's combining function.
Recomputed(n) == query.before[n].valid /\ CellsNow[n].gen # query.before[n].gen

\* The last call found a result in the cell of n and returned that same object.
ServedFromCache(n) ==
  /\ query.before[n].valid
  /\ CellsNow[n].gen = query.before[n].gen
  /\ CellsNow[n].result.id = query.before[n].result

\* C7: a selector that a call evaluates runs its combining function only if
\* one of its upstream values is not identical to the one of its last
\* evaluation; with identical upstream values the call leaves the cell's
\* result, the very same object, in place.
C7_RecomputesOnlyOnChangedUpstream ==
  Queried =>
    \A n \in query.evaluated :
      /\ Recomputed(n) => CellsNow[n].args # query.before[n].args
      /\ (query.before[n].valid /\ CellsNow[n].args = query.before[n].args)
           => ServedFromCache(n)

\* A call that served one selector from its cache and recomputed another
\* whose upstream had changed.
C7_Witness ==
  /\ Queried
  /\ \E n, m \in query.evaluated :
       /\ ServedFromCache(n) /\ CellsNow[n].args = query.before[n].args
       /\ Recomputed(m) /\ CellsNow[m].args # query.before[m].args

\* The last call asked for the call tree of a thread whose tree was cached,
\* and since that tree was computed only selected-marker changes happened.
TreeQueriedAfterMarkerChangesOnly ==
  /\ Queried
  /\ query.key = "getCallTree"
  /\ ~query.threw
  /\ query.before["getCallTree"].valid
  /\ query.since = {"CHANGE_SELECTED_MARKER"}

\* C8: after events that changed only a thread's view options, the next
\* call-tree query returns the cached tree without recomputing it, with or
\* without an active time-range selection.
C8_MarkerChangeKeepsCallTree ==
  TreeQueriedAfterMarkerChangesOnly => ServedFromCache("getCallTree")

\* The part of C8 that the selectors do satisfy: without a time-range
\* selection the cached tree is returned.
C8_MarkerChangeKeepsCallTreeWithoutSelection ==
  (TreeQueriedAfterMarkerChangesOnly /\ ~query.inputs.selection.hasSelection)
    => ServedFromCache("getCallTree")

\* The case of C8 without a selection happens.
C8_WitnessWithoutSelection ==
  TreeQueriedAfterMarkerChangesOnly /\ ~query.inputs.selection.hasSelection

\* C9: a call of accessor key through selectedThreadSelectors returns (or
\* throws) exactly what the accessor key of the thread that the state
\* selects returns on that state.
C9_SelectedDelegatesToSelectedThread ==
  [][ (nQueries' = nQueries + 1 /\ query'.via = "selected") =>
        LET t == url.selectedThread
            r == CallSelector(t, query'.key, selectorsForThread(t)[t], displayRangeCell)
        IN  /\ query'.threadIndex = t
            /\ query'.threw = r.threw
            /\ query'.result = r.result
            /\ selectorsForThreads'[t] = r.cells ]_vars

\* The selected thread changed from 0, whose call tree is cached, to 1, and
\* the call through selectedThreadSelectors that followed returned a tree
\* of thread 1.
C9_Witness ==
  /\ query.via = "selected"
  /\ query.key = "getCallTree"
  /\ ~query.threw
  /\ last.type = "CHANGE_SELECTED_THREAD"
  /\ query.at = nEvents
  /\ url.selectedThread = 1
  /\ selectorsForThreads[0]["getCallTree"].valid
  /\ query.result.id.t = 1

\* The stage a call-tree filter stands for.
FilterStage(filter) ==
  IF filter.type = "prefix"
  THEN [stage |-> "prefix", arg |-> filter.prefixFuncs, matchJSOnly |-> filter.matchJSOnly]
  ELSE [stage |-> "postfix", arg |-> filter.postfixFuncs, matchJSOnly |-> filter.matchJSOnly]

\* The stages in the order C10 states, for the inputs of a call.
StagesInOrder(inputs, withSelection) ==
  LET rangeFilters == inputs.rangeFilters
      displayRange == IF Len(rangeFilters) > 0
                      THEN <<rangeFilters[Len(rangeFilters)].start + zeroAt,
                             rangeFilters[Len(rangeFilters)].end + zeroAt>>
                      ELSE <<rootRange.start, rootRange.end>>
  IN  << [stage |-> "range", arg |-> displayRange] >>
      \o [i \in 1 .. Len(inputs.callTreeFilters) |-> FilterStage(inputs.callTreeFilters[i])]
      \o (IF inputs.jsOnly THEN << [stage |-> "jsOnly"] >> ELSE <<>>)
      \o << [stage |-> "search", searchString |-> inputs.searchString] >>
      \o (IF inputs.invertCallstack THEN << [stage |-> "invert"] >> ELSE <<>>)
      \o (IF withSelection /\ inputs.selection.hasSelection
          THEN << [stage |-> "range",
                   arg |-> <<inputs.selection.selectionStart, inputs.selection.selectionEnd>>] >>
          ELSE <<>>)

\* C10: the filtered thread is the raw thread put through the display-range
\* filter, the call-tree filters in list order, the JS-only filter if
\* enabled, the search filter, the invert filter if enabled; the thread the
\* call tree is built from has the selection-range filter applied after these.
C10_StagesInFixedOrder ==
  (Queried /\ ~query.threw /\ query.key \in {"getFilteredThread", "getCallTree"}) =>
    /\ CellsNow["getFilteredThread"].result.raw = query.inputs.thread
    /\ CellsNow["getFilteredThread"].result.stages = StagesInOrder(query.inputs, FALSE)
    /\ query.key = "getCallTree" =>
         /\ CellsNow["getRangeSelectionFilteredThread"].result.stages
              = StagesInOrder(query.inputs, TRUE)
         /\ query.result.thread = CellsNow["getRangeSelectionFilteredThread"].result.id

\* A call tree built with two call-tree filters, JS-only, a search string,
\* inversion and a time-range selection all in effect.
C10_Witness ==
  /\ Queried /\ ~query.threw /\ query.key = "getCallTree"
  /\ Len(query.inputs.callTreeFilters) >= 2
  /\ query.inputs.callTreeFilters[1] # query.inputs.callTreeFilters[2]
  /\ query.inputs.jsOnly
  /\ query.inputs.searchString # ""
  /\ query.inputs.invertCallstack
  /\ query.inputs.selection.hasSelection

\* The last call built or returned a call tree.
TreeQueried == Queried /\ ~query.threw /\ query.key = "getCallTree"

\* C11: the FuncStack index handed to the call-tree builder is the index
\* computed from the very thread handed to it, with or without a time-range
\* selection.
C11_IndexOfTheThreadPassed ==
  TreeQueried =>
    /\ query.result.funcStackInfo = CellsNow["getFuncStackInfo"].result.id
    /\ CellsNow["getFuncStackInfo"].result.thread = query.result.thread

\* The part of C11 that the selectors do satisfy: without a time-range
\* selection the index is the index of the thread passed.
C11_IndexOfTheThreadPassedWithoutSelection ==
  (TreeQueried /\ ~query.inputs.selection.hasSelection) =>
    /\ query.result.funcStackInfo = CellsNow["getFuncStackInfo"].result.id
    /\ CellsNow["getFuncStackInfo"].result.thread = query.result.thread

\* A call tree built without a time-range selection.
C11_WitnessWithoutSelection == TreeQueried /\ ~query.inputs.selection.hasSelection

\* The last call evaluated the call-tree filtering stage of a thread that
\* has no call-tree filter.
FilterStageRunWithoutFilters ==
  /\ Queried /\ ~query.threw
  /\ "_getRangeAndCallTreeFilteredThread" \in query.evaluated
  /\ query.inputs.callTreeFilters = <<>>

\* C15: with an empty list of call-tree filters the call-tree filtering stage
\* returns the range-filtered thread itself, so the next stage sees exactly
\* that thread.
C15_NoFiltersIsIdentity ==
  FilterStageRunWithoutFilters =>
    /\ CellsNow["_getRangeAndCallTreeFilteredThread"].result
         = CellsNow["getRangeFilteredThread"].result
    /\ CellsNow["_getJSOnlyFilteredThread"].args[1]
         = CellsNow["getRangeFilteredThread"].result.id

\* The stage ran without filters on a thread restricted by a range filter.
C15_Witness ==
  /\ FilterStageRunWithoutFilters
  /\ query.inputs.rangeFilters # <<>>
  /\ CellsNow["_getRangeAndCallTreeFilteredThread"].result.stages
       = << [stage |-> "range", arg |-> <<1, 3>>] >>

\* C16: the selector set of a thread index is created once: whatever step is
\* taken (a call for this or another index, a state change), an index that
\* has a selector set keeps that very set, and its cells lose no result.
C16_SelectorSetCreatedOnce ==
  [][ \A i \in DOMAIN selectorsForThreads :
        /\ i \in DOMAIN selectorsForThreads'
        /\ selectorsForThreads'[i]["created"] = selectorsForThreads[i]["created"]
        /\ \A n \in Nodes :
             /\ selectorsForThreads'[i][n].gen >= selectorsForThreads[i][n].gen
             /\ selectorsForThreads[i][n].valid => selectorsForThreads'[i][n].valid
             /\ (i # query'.threadIndex \/ nQueries' = nQueries)
                  => selectorsForThreads'[i][n] = selectorsForThreads[i][n] ]_vars

\* A second call for thread 1, whose selector set the first call created,
\* found the call tree the first call had cached.
C16_Witness ==
  /\ nQueries = 2
  /\ query.threadIndex = 1
  /\ query.before["getCallTree"].valid
  /\ selectorsForThreads[0]["created"] = 1
  /\ selectorsForThreads[1]["created"] = 2

\* C19: the selection-range filter is applied exactly when hasSelection is
\* true, whatever isModifying is: without a selection the thread the call tree
\* is built from is the filtered thread itself, with one it is the filtered
\* thread put through the range filter from selectionStart to selectionEnd.
C19_SelectionFilterIffHasSelection ==
  TreeQueried =>
    LET filtered == CellsNow["getFilteredThread"].result
        restricted == CellsNow["getRangeSelectionFilteredThread"].result
        sel == query.inputs.selection
    IN  IF sel.hasSelection
        THEN /\ restricted.id # filtered.id
             /\ restricted.raw = filtered.raw
             /\ restricted.stages =
                  Append(filtered.stages,
                         [stage |-> "range", arg |-> <<sel.selectionStart, sel.selectionEnd>>])
        ELSE restricted = filtered

\* A call tree was built while a selection was being modified.
C19_Witness ==
  /\ TreeQueried
  /\ query.inputs.selection.hasSelection
  /\ query.inputs.selection.isModifying
  /\ Len(CellsNow["getRangeSelectionFilteredThread"].result.stages)
       = Len(CellsNow["getFilteredThread"].result.stages) + 1

====
